---- MODULE Spec2Model ----
(***************************************************************************)
(* State-machine model of the example scripts of lix-it/api-examples.      *)
(* Each script is a sequential process: `script` says which one runs,      *)
(* `pc` is its position, and the HTTP server, the contents of its          *)
(* responses, and the operator who kills and re-invokes the script are     *)
(* the nondeterministic environment.                                       *)
(***************************************************************************)
EXTENDS Integers, Sequences, FiniteSets, TLC

\* ------------------------------------------------------------------ bounds
MaxReq == 4        \* HTTP requests issued over all invocations of a script
MaxRuns == 2       \* invocations of the script (the first one and re-invocations)
EmpNumPages == 2   \* pages of employees the organisation has
NumSources == 2    \* rows imported into the source table of an enrichment script

\* --------------------------------------------------------------- constants
PerPage == 10      \* linkedin get_page: "assuming 10 results per page"
max_retries == 6   \* email_enrichment.py

None == [none |-> TRUE]     \* Python's None / an unset in-memory value

\* HTTP: status 0 stands for a transport failure (requests raises), the rest
\* are status codes. A body is parseable JSON ("json"), the structured
\* not-found error {"error": {"type": "not_found"}} ("nf"), or text that
\* json() rejects ("garbage").
Transport == 0
Statuses == {200, 400, 401, 403, 404, 429, 500}
Bodies(s) ==
    IF s = 200 THEN {"json", "garbage"}
    ELSE IF s = 400 THEN {"nf", "json", "garbage"}
    ELSE IF s >= 500 THEN {"json", "garbage"}
    ELSE {"json"}
\* The paginated scripts read the body of a 200 only.
PageBodies(s) == IF s = 200 THEN {"json", "garbage"} ELSE {"json"}
Min(a, b) == IF a <= b THEN a ELSE b
Max(a, b) == IF a >= b THEN a ELSE b
Resp(s, b) == [status |-> s, body |-> b]
NoResp == Resp(-1, "none")
Responses ==
    {Resp(Transport, "none")} \cup
    UNION {{Resp(s, b) : b \in Bodies(s)} : s \in Statuses}
\* The email endpoint's 200 body may carry status VALID or PROBABLE.
EmailResponses == Responses \cup {Resp(200, "VALID"), Resp(200, "PROBABLE")}
\* A 200 profile may leave out a field the export asks for ("partial").
ProfileResponses == Responses \cup {Resp(200, "partial")}
PageResponses ==
    {Resp(Transport, "none")} \cup
    UNION {{Resp(s, b) : b \in PageBodies(s)} : s \in Statuses}

VARIABLES
    script,         \* which script this behaviour runs
    pc,             \* position of the running process
    run,            \* number of invocations started so far
    kills,          \* history: number of invocations the operator killed
    nreq,           \* number of HTTP requests issued so far
    slept,          \* history: the process has slept since its last response
    lastResp,       \* the latest response
    lastReq,        \* parameters of the latest request
    reqRun,         \* invocation that issued the latest request
    streak,         \* history: consecutive 429/5xx responses just received
    max_results,    \* linkedin: MAX_RESULTS (0 = not given)
    current_start,  \* linkedin: collect_search's offset cursor
    page,           \* sales_nav: collect_search's page cursor
    count,          \* pagination: items collected by this invocation
    sequence_id,    \* pagination: the sequence id sent with requests
    result,         \* pagination: the page get_page returned, not yet logged
    log,            \* RESULT_PATH: the lines of the JSONL results file
    served,         \* history: pages answered 200 to this invocation
    all200,         \* history: every response of this invocation was a 200
    honest,         \* history: every page came from one 10-per-page result set
    after,          \* get_employees: the cursor of collect_all_employees (0: None)
    employees,      \* get_employees: the rows of the employees table
    is_complete,    \* get_employees: run_state.is_complete of the org
    why,            \* history: how the loop of collect_all_employees ended
    failed,         \* history: person ids whose insert raised in this invocation
    sources,        \* enrichment: last_collected_at of each source row (0: null)
    enriched,       \* enrichment: the rows of the enrichment table
    work,           \* enrichment: the work list this invocation selected
    wi,             \* enrichment: index in `work` of the item being processed
    store,          \* the SQLite database: which tables exist, and made by what
    txn,            \* the SQLite database: rows written since the last commit
    out             \* the export: the rows of the output file, the exit status

http == <<nreq, lastResp, lastReq, reqRun, streak, slept>>
pagMem == <<current_start, page, count, sequence_id, result>>
pagHist == <<served, all200, honest>>
pagVars == <<max_results, pagMem, log, pagHist>>
empVars == <<after, employees, is_complete, why, failed>>
enVars == <<sources, enriched, work, wi>>
vars == <<script, pc, run, kills, http, pagVars, empVars, enVars, store, txn, out>>

Running == pc \in {"fetch", "got", "written", "logged", "ended"}

\* One HTTP exchange: the request `req` goes out and response `r` comes back.
Exchange(req, r) ==
    /\ nreq < MaxReq
    /\ nreq' = nreq + 1
    /\ lastReq' = req
    /\ reqRun' = run
    /\ lastResp' = r
    /\ streak' = IF r.status = 429 \/ r.status >= 500 THEN streak + 1 ELSE 0

\* A new invocation of the script starts.
Start ==
    /\ ~Running
    /\ run < MaxRuns
    /\ run' = run + 1
    /\ streak' = 0
    /\ all200' = TRUE
    /\ served' = <<>>
    /\ why' = "running"
    /\ failed' = {}
    /\ slept' = FALSE
    /\ UNCHANGED <<script, kills, nreq, lastResp, lastReq, reqRun, max_results, store, txn, out>>

\* ========================================================================
\* linkedin/pagination.py
\* ========================================================================

\* get_page line 68: the page number sent for an offset.
PageOf(start) == IF start > 0 THEN (start \div PerPage) + 1 ELSE 1

\* The request get_page builds before its retry loop (lines 64-88).
LiRequest(start, seq) == [page |-> PageOf(start), seq |-> seq]

\* What page `p` of a 10-per-page result set of `total` items holds.
HonestStart(p) == (p - 1) * PerPage
HonestCount(p, total) == Max(0, Min(PerPage, total - HonestStart(p)))

\* The counts and totals a page may report: an empty page, a short page
\* and a full page, of a result set of 20 or of 25 items.
PageCounts == {0, 5, PerPage}
PageTotals == {20, 25}

\* The 200 bodies the server may send for a request of page `p`:
\* response.paging {start, count, total} and meta.sequenceId.
LiPages(p) ==
    [start : {HonestStart(p), 0}, count : PageCounts, total : PageTotals,
     seq : {2}]

\* Whether page body `b`, sent for page `p`, is what a fixed 10-per-page
\* result set holds, the same one the logged lines came from.
IsHonest(p, b) ==
    /\ b.start = HonestStart(p)
    /\ b.count = HonestCount(p, b.total)
    /\ \A i \in 1..Len(log) : log[i].total = b.total

\* __main__ lines 186-197: the start offset recomputed from the last line.
ResumeOffsetBug(lines) ==
    IF lines = <<>> THEN 0 ELSE lines[Len(lines)].start
ResumeOffset(lines) ==
    IF lines = <<>> THEN 0
    ELSE lines[Len(lines)].start + lines[Len(lines)].count

\* __main__ (lines 184-205) and the head of collect_search (lines 127-133).
LiMain ==
    /\ script = "li"
    /\ Start
    /\ current_start' = ResumeOffset(log)
    /\ count' = 0
    /\ sequence_id' = 1               \* a fresh uuid4
    /\ result' = None
    /\ pc' = "fetch"
    /\ UNCHANGED <<enVars, after, employees, is_complete, page, log, honest>>

\* get_page lines 91-115, one pass of the loop: "return" the parsed body,
\* "retry" (sleep and go round again), or return "none". response.json()
\* is called inside the try, so a 200 that does not parse is retried.
LiGetPageNo5xx(r) ==
    IF r.status = Transport THEN "retry"
    ELSE IF r.status = 200 THEN (IF r.body = "garbage" THEN "retry" ELSE "return")
    ELSE IF r.status = 429 THEN "retry"
    ELSE "none"
LiGetPage(r) ==
    IF r.status = Transport THEN "retry"
    ELSE IF r.status = 200 THEN (IF r.body = "garbage" THEN "retry" ELSE "return")
    ELSE IF r.status = 429 THEN "retry"
    ELSE IF r.status >= 500 THEN "retry"
    ELSE "none"

\* get_page lines 97, 101, 105, 114: every pass of the loop sleeps, but the
\* one that returns None for a client error.
LiSleeps(r) == LiGetPage(r) # "none"

\* collect_search line 137 with one pass of get_page's loop, and lines
\* 139-141: a None result breaks out of the loop.
LiFetch ==
    /\ script = "li" /\ pc = "fetch"
    /\ \E r \in PageResponses :
        /\ Exchange(LiRequest(current_start, sequence_id), r)
        /\ slept' = LiSleeps(r)
        /\ all200' = (all200 /\ r = Resp(200, "json"))
        /\ IF LiGetPage(r) = "return"
           THEN \E b \in LiPages(PageOf(current_start)) :
                   /\ result' = b
                   /\ served' = Append(served, b)
                   /\ honest' = (honest /\ IsHonest(PageOf(current_start), b))
                   /\ pc' = "got"
           ELSE /\ pc' = IF LiGetPage(r) = "retry" THEN "fetch" ELSE "stopped"
                /\ UNCHANGED <<result, served, honest>>
    /\ UNCHANGED <<out, txn, store, enVars, empVars, script, run, kills, max_results, current_start, page, count,
                   sequence_id, log>>

\* The line written to the results file: the paging fields of the page and
\* _collection_metadata.offset (lines 159-165).
LiLogLine(b, offset) ==
    [offset |-> offset, start |-> b.start, count |-> b.count, total |-> b.total]

\* collect_search lines 144-165: update sequence_id, add to count, append
\* the page to the results file.
LiAppend ==
    /\ script = "li" /\ pc = "got"
    /\ sequence_id' = IF result.seq # 0 THEN result.seq ELSE sequence_id
    /\ count' = count + result.count
    /\ log' = Append(log, LiLogLine(result, current_start))
    /\ pc' = "logged"
    /\ UNCHANGED <<out, txn, store, enVars, empVars, script, run, kills, http, max_results, current_start, page,
                   result, pagHist>>

\* collect_search lines 170-178: the termination test after a page.
LiFinishedTotalOnly(cnt, b, maxr) == cnt >= b.total
LiFinishedNoEmpty(cnt, b, maxr) == cnt >= b.total \/ (maxr # 0 /\ cnt >= maxr)
LiFinishedStrict(cnt, b, maxr) ==
    cnt > b.total \/ (maxr # 0 /\ cnt >= maxr) \/ b.count = 0
LiFinished(cnt, b, maxr) ==
    \/ cnt >= b.total
    \/ (maxr # 0 /\ cnt >= maxr)
    \/ b.count = 0

\* collect_search lines 170-181: finish, or move the cursor past the page.
LiAdvance ==
    /\ script = "li" /\ pc = "logged"
    /\ IF LiFinished(count, result, max_results)
       THEN /\ pc' = "done"
            /\ UNCHANGED current_start
       ELSE /\ pc' = "fetch"
            /\ current_start' = result.start + result.count
    /\ result' = None
    /\ UNCHANGED <<out, txn, store, enVars, empVars, script, run, kills, http, max_results, page, count,
                   sequence_id, log, pagHist>>

\* ========================================================================
\* sales_nav_leads/pagination.py
\* ========================================================================

\* The request get_page builds (lines 37-41).
SnRequestNoSeq(p, seq) == [page |-> p, seq |-> 0]
SnRequest(p, seq) == [page |-> p, seq |-> seq]

\* The 200 bodies the server may send for page `p`: paging {count, total}
\* and meta.sequenceId, a new id with every page.
SnPages(p) == [count : PageCounts, total : PageTotals, seq : {p + 1}]

\* __main__ lines 96-100: the start page is one more than the lines logged.
StartPage(lines) == Len(lines) + 1

\* __main__ (lines 94-104) and the head of collect_search (lines 64-69).
SnMain ==
    /\ script = "sn"
    /\ Start
    /\ page' = StartPage(log)
    /\ sequence_id' = 0               \* the empty string
    /\ count' = 0
    /\ result' = None
    /\ pc' = "fetch"
    /\ UNCHANGED <<enVars, after, employees, is_complete, current_start, log, honest>>

\* get_page lines 43-59, one pass of the loop. There is no try: a transport
\* failure, or a 200 whose json() raises, leaves the script as an exception.
\* Every status other than 200 sleeps and goes round again.
SnGetPage(r) ==
    IF r.status = Transport THEN "raise"
    ELSE IF r.status # 200 THEN "retry"
    ELSE IF r.body = "garbage" THEN "raise"
    ELSE "return"

\* get_page lines 54 and 57: every response is followed by a sleep.
SnSleeps(r) == r.status # Transport

\* collect_search line 73 with one pass of get_page's loop.
SnFetch ==
    /\ script = "sn" /\ pc = "fetch"
    /\ \E r \in PageResponses :
        /\ Exchange(SnRequest(page, sequence_id), r)
        /\ slept' = SnSleeps(r)
        /\ all200' = (all200 /\ r = Resp(200, "json"))
        /\ IF SnGetPage(r) = "return"
           THEN \E b \in SnPages(page) :
                   /\ result' = b
                   /\ served' = Append(served, b)
                   /\ pc' = "got"
           ELSE /\ pc' = IF SnGetPage(r) = "retry" THEN "fetch" ELSE "crashed"
                /\ UNCHANGED <<result, served>>
    /\ UNCHANGED <<out, txn, store, enVars, empVars, script, run, kills, max_results, current_start, page, count,
                   sequence_id, log, honest>>

\* collect_search lines 75-82: add to count, tag the people with the page,
\* append the page to the results file.
SnAppend ==
    /\ script = "sn" /\ pc = "got"
    /\ count' = count + result.count
    /\ log' = Append(log, [page |-> page, count |-> result.count,
                           total |-> result.total])
    /\ pc' = "logged"
    /\ UNCHANGED <<out, txn, store, enVars, empVars, script, run, kills, http, max_results, current_start, page,
                   sequence_id, result, pagHist>>

\* collect_search lines 86-90: finish, or take the sequence id and the next page.
SnAdvance ==
    /\ script = "sn" /\ pc = "logged"
    /\ IF count >= result.total
       THEN /\ pc' = "done"
            /\ UNCHANGED <<sequence_id, page>>
       ELSE /\ pc' = "fetch"
            /\ sequence_id' = result.seq
            /\ page' = page + 1
    /\ result' = None
    /\ UNCHANGED <<out, txn, store, enVars, empVars, script, run, kills, http, max_results, current_start, count,
                   log, pagHist>>

\* ========================================================================
\* sales_nav_leads/filters.py ("fl"): three requests in a row, the job title
\* facet (1), the company facet (2) and the search page (3).
\* ========================================================================

\* get_job_title_facet lines 91-101: the request is outside any try and the
\* body is parsed before the status is looked at; a status other than 200
\* returns (0, "") at once; a 200 sleeps and then reads the first element.
get_job_title_facet(r, hit) ==
    IF r.status = Transport \/ r.body = "garbage" THEN "raise"
    ELSE IF r.status # 200 THEN "next"
    ELSE IF hit THEN "next" ELSE "raise"

\* get_company_facet lines 107-117: the same, the body parsed after the
\* status is looked at.
get_company_facet(r, hit) ==
    IF r.status = Transport THEN "raise"
    ELSE IF r.status # 200 THEN "next"
    ELSE IF r.body = "garbage" THEN "raise"
    ELSE IF hit THEN "next" ELSE "raise"

\* get_page lines 129-153: a transport failure sleeps and returns; a status
\* other than 200 breaks; a 200 is printed (json() unguarded, first person
\* read) and saved, and the function sleeps.
FlGetPage(r, hit) ==
    IF r.status = Transport THEN "end"
    ELSE IF r.status # 200 THEN "end"
    ELSE IF r.body = "garbage" THEN "raise"
    ELSE IF hit THEN "save" ELSE "raise"

\* What request n of the script does with its response.
FlOutcome(n, r, hit) ==
    IF n = 1 THEN get_job_title_facet(r, hit)
    ELSE IF n = 2 THEN get_company_facet(r, hit)
    ELSE FlGetPage(r, hit)

\* Lines 98, 114, 135, 152: the sleeps.
FlSleeps(n, r, hit) ==
    IF n = 3 THEN r.status = Transport \/ FlGetPage(r, hit) = "save"
    ELSE r.status = 200 /\ r.body # "garbage"

\* __main__ (lines 156-173) starts.
FlMain ==
    /\ script = "fl"
    /\ Start
    /\ wi' = 1
    /\ pc' = "fetch"
    /\ UNCHANGED <<current_start, page, count, sequence_id, result, log,
                   honest, empVars, sources, enriched, work>>

\* The next request of __main__ and what follows its response.
FlFetch ==
    /\ script = "fl" /\ pc = "fetch"
    /\ \E r \in Responses, hit \in BOOLEAN :
        /\ Exchange([facet |-> wi], r)
        /\ slept' = FlSleeps(wi, r, hit)
        /\ all200' = (all200 /\ r = Resp(200, "json"))
        /\ CASE FlOutcome(wi, r, hit) = "next" ->
                    pc' = "fetch" /\ wi' = wi + 1 /\ log' = log
             [] FlOutcome(wi, r, hit) = "save" ->
                    pc' = "done" /\ wi' = wi /\ log' = <<r>>
             [] FlOutcome(wi, r, hit) = "end" ->
                    pc' = "done" /\ wi' = wi /\ log' = log
             [] OTHER ->
                    pc' = "crashed" /\ wi' = wi /\ log' = log
    /\ UNCHANGED <<out, txn, store, script, run, kills, max_results,
                   current_start, page, count, sequence_id, result, served,
                   honest, empVars, sources, enriched, work>>

\* ========================================================================
\* The SQLite database of the scripts with subcommands
\* ========================================================================

\* The scripts with `migrate` and `run` subcommands; all but
\* get_employees.py have `import` too.
CmdScripts == {"person", "org", "domain", "email", "emp"}

\* What the database at --db-path holds:
\*  "nodir"   its directory does not exist: sqlite3.connect raises;
\*  "none"    no table (sqlite3.connect creates the file when it is missing);
\*  "csv"     the source table only, made by `import` (DataFrame.to_sql) from
\*            a CSV without the last_collected_at column;
\*  "csvfull" the source table only, made by `import` from a CSV that has all
\*            the columns of the source table;
\*  "mixed"   `migrate` ran after "csv": the source table still lacks the
\*            column, the enrichment table exists;
\*  "ready"   the tables `migrate` creates.
Stores == {"nodir", "none", "csv", "csvfull", "mixed", "ready"}

\* migrate: create table if not exists, for the source and enrichment tables.
MigratedAnew(st) ==
    IF st = "nodir" THEN st ELSE IF st = "ready" THEN "none" ELSE "ready"
Migrated(st) ==
    IF st = "none" \/ st = "csvfull" THEN "ready"
    ELSE IF st = "csv" THEN "mixed"
    ELSE st

\* import: to_sql(..., if_exists="append") creates the source table with the
\* columns of the CSV when it is missing, and appends to it otherwise.
Imported(st) == IF st = "none" THEN {"csv", "csvfull"} ELSE {st}
ImportReplace(rows) == <<0>>
ImportRows(rows) == Append(rows, 0)

\* Whether the first query of `run` succeeds: get_people / get_domains read
\* last_collected_at of the source table, get_profiles_to_process joins the
\* source and the enrichment table, check_if_complete reads run_state.
Selectable(sc, st) ==
    IF sc \in {"person", "org", "domain"} THEN st \in {"csvfull", "ready"}
    ELSE IF sc \in {"email", "emp"} THEN st = "ready"
    ELSE TRUE

\* ========================================================================
\* use_cases/watches/get_employees.py
\* ========================================================================

\* The org's employees as the server pages them: page p holds the person p,
\* an employee without a personId (0), and the person p + 1, who is on the
\* next page too. Pages after the last one are empty.
EmpOnPage(p) ==
    IF p <= EmpNumPages THEN <<p, 0, p + 1>> ELSE <<>>

\* paging._links.next of page p: an absolute or a relative link carrying the
\* after cursor of the next page, a relative link without a query, a link
\* without an after parameter, or none. The last page has no next link, or
\* one that leads to an empty page.
EmpLinks(p) ==
    IF p < EmpNumPages
    THEN [kind : {"abs", "rel", "noquery", "noafter"}, after : {p + 1}]
    ELSE IF p = EmpNumPages
    THEN [kind : {"none", "abs"}, after : {p + 1}]
    ELSE [kind : {"none"}, after : {p + 1}]

\* The page a request with cursor `a` asks for.
EmpPageOf(a) == IF a = 0 THEN 1 ELSE a

\* get_employees_page lines 138-144: the request.
EmpRequest(a) == [after |-> a]

\* get_employees_page lines 149-189, one pass of the loop: "return" the
\* parsed body, "retry", return "none", or "raise".
EmpGetPageLenient(r) ==
    IF r.status = Transport THEN "retry"
    ELSE IF r.status = 200 THEN (IF r.body = "garbage" THEN "none" ELSE "return")
    ELSE IF r.status = 429 THEN "retry"
    ELSE IF 400 <= r.status /\ r.status < 500 THEN "none"
    ELSE "retry"
EmpGetPageNo5xx(r) ==
    IF r.status = Transport THEN "retry"
    ELSE IF r.status = 200 THEN (IF r.body = "garbage" THEN "none" ELSE "return")
    ELSE IF r.status = 401 THEN "raise"
    ELSE IF r.status = 402 THEN "raise"
    ELSE IF r.status = 404 THEN "none"
    ELSE IF r.status = 429 THEN "retry"
    ELSE "raise"
EmpGetPage(r) ==
    IF r.status = Transport THEN "retry"
    ELSE IF r.status = 200 THEN (IF r.body = "garbage" THEN "none" ELSE "return")
    ELSE IF r.status = 401 THEN "raise"
    ELSE IF r.status = 402 THEN "raise"
    ELSE IF r.status = 404 THEN "none"
    ELSE IF r.status = 429 THEN "retry"
    ELSE IF 400 <= r.status /\ r.status < 500 THEN "raise"
    ELSE "retry"

\* check_if_complete (lines 112-119).
check_never == FALSE
check_if_complete == is_complete = 1

\* __main__ lines 335-351 and collect_all_employees lines 269-274.
EmpMain ==
    /\ script = "emp"
    /\ Selectable(script, store)
    /\ Start
    /\ after' = 0
    /\ result' = None
    /\ pc' = IF check_if_complete THEN "done" ELSE "fetch"
    /\ UNCHANGED <<enVars, current_start, page, count, sequence_id, log, honest,
                   employees, is_complete>>

\* get_employees_page lines 154, 166, 180, 188: the passes that sleep. A
\* parsed 200 returns at once; the loop of collect_all_employees sleeps
\* before its next pass (line 319).
EmpSleeps(r) ==
    \/ EmpGetPage(r) = "retry"
    \/ r.status = 200 /\ r.body = "garbage"

\* collect_all_employees line 277 with one pass of get_employees_page's
\* loop, and lines 279-281: no data breaks out of the loop.
EmpFetch ==
    /\ script = "emp" /\ pc = "fetch"
    /\ \E r \in PageResponses :
        /\ Exchange(EmpRequest(after), r)
        /\ slept' = EmpSleeps(r)
        /\ all200' = (all200 /\ r = Resp(200, "json"))
        /\ IF EmpGetPage(r) = "return"
           THEN /\ \E l \in EmpLinks(EmpPageOf(after)) :
                     result' = [employees |-> EmpOnPage(EmpPageOf(after)),
                                next |-> l]
                /\ pc' = "got"
                /\ why' = why
           ELSE /\ pc' = CASE EmpGetPage(r) = "retry" -> "fetch"
                           [] EmpGetPage(r) = "none" -> "ended"
                           [] OTHER -> "crashed"
                /\ why' = CASE EmpGetPage(r) = "retry" -> why
                            [] EmpGetPage(r) = "none" -> "nodata"
                            [] OTHER -> "raised"
                /\ result' = result
    /\ UNCHANGED <<out, txn, store, enVars, script, run, kills, max_results, current_start, page, count,
                   sequence_id, log, served, honest, after, employees,
                   is_complete, failed>>

\* The insert of save_employees (lines 232-259): a new row, or on conflict
\* with the row of the same (person_id, org_id), that row updated.
InsertAlways(rows, person_id) == Append(rows, person_id)
Upsert(rows, person_id) ==
    IF \E i \in 1..Len(rows) : rows[i] = person_id
    THEN rows
    ELSE Append(rows, person_id)

\* save_employees lines 196-262 over a page: an employee without a personId
\* is skipped, one whose insert raises (`bad`) is skipped, the rest upserted.
RECURSIVE SaveUntilSkip(_, _, _)
SaveUntilSkip(rows, emps, bad) ==
    IF emps = <<>> \/ Head(emps) = 0 \/ Head(emps) \in bad THEN rows
    ELSE SaveUntilSkip(Upsert(rows, Head(emps)), Tail(emps), bad)
RECURSIVE SaveAll(_, _, _)
SaveAll(rows, emps, bad) ==
    IF emps = <<>> THEN rows
    ELSE IF Head(emps) = 0 \/ Head(emps) \in bad
    THEN SaveAll(rows, Tail(emps), bad)
    ELSE SaveAll(Upsert(rows, Head(emps)), Tail(emps), bad)

Ids(emps) == {emps[i] : i \in 1..Len(emps)} \ {0}

\* collect_all_employees lines 300-317: the after cursor of a next link
\* (0: none found).
ParseNext(l) ==
    IF l.kind = "abs" \/ l.kind = "rel" THEN l.after ELSE 0

\* save_employees lines 196-262, one employee of the page in hand: skipped
\* when it has no personId or when its insert raises (recorded as 0), else
\* written in the open transaction.
EmpWrite ==
    /\ script = "emp" /\ pc = "got"
    /\ Len(txn) < Len(result.employees)
    /\ \E ok \in BOOLEAN :
         LET e == result.employees[Len(txn) + 1]
         IN /\ txn' = Append(txn, IF e # 0 /\ ok THEN e ELSE 0)
            /\ failed' = IF e # 0 /\ ~ok THEN failed \cup {e} ELSE failed
    /\ UNCHANGED <<out, store, enVars, script, pc, run, kills, http, pagVars, after,
                   employees, is_complete, why>>

\* collect_all_employees lines 283-319 for the page in hand: stop at an empty
\* page; else, every employee of the page done, commit the page (line 264)
\* and either stop, at a page without a usable next link, or move the cursor.
EmpSave ==
    /\ script = "emp" /\ pc = "got"
    /\ Len(txn) = Len(result.employees)
    /\ IF result.employees = <<>>
       THEN /\ pc' = "ended"
            /\ why' = "empty"
            /\ UNCHANGED <<employees, after>>
       ELSE /\ employees' = SaveAll(employees, txn, {})
            /\ IF result.next.kind = "none"
               THEN pc' = "ended" /\ why' = "nonext" /\ after' = after
               ELSE IF ParseNext(result.next) = 0
               THEN pc' = "ended" /\ why' = "badlink" /\ after' = after
               ELSE pc' = "fetch" /\ why' = why /\ after' = ParseNext(result.next)
    /\ result' = None
    /\ txn' = <<>>
    /\ slept' = (slept \/ pc' = "fetch")          \* line 319
    /\ UNCHANGED <<out, store, enVars, script, run, kills, nreq, lastResp, lastReq, reqRun, streak, max_results, current_start,
                   page, count, sequence_id, log, pagHist, is_complete, failed>>

\* collect_all_employees line 321: mark_complete (lines 122-132).
EmpMarkComplete ==
    /\ script = "emp" /\ pc = "ended"
    /\ is_complete' = 1
    /\ pc' = "done"
    /\ UNCHANGED <<out, txn, store, enVars, script, run, kills, http, pagVars, after, employees, why, failed>>

\* ========================================================================
\* The single-item lookups: enrichment/person/python/person.py ("person"),
\* use_cases/enrichment/org/python/org.py ("org") and by_domain.py
\* ("domain"), use_cases/enrichment/email/python/email_enrichment.py
\* ("email"), guides/contact/email/python/email_lookup.py ("lookup")
\* ========================================================================
EnScripts == {"person", "org", "domain", "email", "lookup"}
IdSeq == [i \in 1..Len(sources) |-> i]

\* One pass of the lookup loop (person.py get_profile lines 82-121, org.py
\* get_profile lines 95-142, by_domain.py get_org_by_domain lines 84-127,
\* email_enrichment.py get_email_from_profile lines 92-143, email_lookup.py
\* lines 44-100): "retry" goes round again, "data" returns j, "fail"
\* returns the failure value (0 or None), "raise" leaves by an exception.
\*  - a transport failure returns the failure value;
\*  - a 404 breaks out of the loop and `return j` then reads a j that was
\*    never assigned: UnboundLocalError;
\*  - a 400: person.py has no branch for it (client error); org.py and
\*    by_domain.py call r.json() unguarded; all four others break on a
\*    not_found body after assigning it to j, so `return j` returns it;
\*  - a 5xx: person.py prints and falls through to `success = True` and
\*    r.json(); the others sleep and continue.
LookupRetry5xx(sc, r) ==
    IF r.status = Transport THEN "fail"
    ELSE IF r.status = 200 THEN (IF r.body = "garbage" THEN "fail" ELSE "data")
    ELSE IF r.status = 404 THEN "raise"
    ELSE IF r.status = 400 /\ sc # "person" /\ r.body = "nf" THEN "data"
    ELSE IF r.status = 429 THEN "retry"
    ELSE IF r.status > 399 /\ r.status < 500 THEN "raise"
    ELSE "retry"
Lookup(sc, r) ==
    IF r.status = Transport THEN "fail"
    ELSE IF r.status = 200 THEN (IF r.body = "garbage" THEN "fail" ELSE "data")
    ELSE IF r.status = 404 THEN "raise"
    ELSE IF r.status = 400 /\ sc # "person" /\ r.body = "nf" THEN "data"
    ELSE IF r.status = 429 THEN "retry"
    ELSE IF r.status > 399 /\ r.status < 500 THEN "raise"
    ELSE IF sc = "person" THEN (IF r.body = "garbage" THEN "fail" ELSE "data")
    ELSE "retry"

\* get_people / get_domains: the source rows whose last_collected_at is null.
get_all_people == IdSeq
get_people == SelectSeq(IdSeq, LAMBDA i : sources[i] = 0)

\* The rows of profile p, oldest first.
RowsOf(p) == SelectSeq(enriched, LAMBDA row : row.id = p)

\* get_profiles_to_process (email_enrichment.py lines 67-75): the left join
\* yields a profile once if it has no row, and once per row that is not
\* VALID and has retry_count < max_retries.
JoinRows(p) ==
    IF RowsOf(p) = <<>> THEN <<p>>
    ELSE LET hits == SelectSeq(RowsOf(p), LAMBDA row :
                         row.status # "VALID" /\ row.retry < max_retries)
         IN [j \in 1..Len(hits) |-> p]
RECURSIVE JoinFrom(_)
JoinFrom(p) == IF p > Len(sources) THEN <<>> ELSE JoinRows(p) \o JoinFrom(p + 1)
get_profiles_to_process == JoinFrom(1)

\* get_current_retry_count (lines 77-82): retry_count of the latest row.
retry_count_zero(p) == 0
get_current_retry_count(p) ==
    IF RowsOf(p) = <<>> THEN 0 ELSE RowsOf(p)[Len(RowsOf(p))].retry

\* The work list __main__ hands to the loop.
WorkOf(sc) ==
    IF sc = "lookup" THEN <<1>>
    ELSE IF sc = "email" THEN get_profiles_to_process
    ELSE get_people

\* __main__: select the work and enter collect_data / collect_emails.
EnMain ==
    /\ script \in EnScripts
    /\ Selectable(script, store)
    /\ Start
    /\ work' = WorkOf(script)
    /\ wi' = 1
    /\ result' = None
    /\ pc' = IF WorkOf(script) = <<>> THEN "done" ELSE "fetch"
    /\ UNCHANGED <<current_start, page, count, sequence_id, log, honest,
                   after, employees, is_complete, sources, enriched>>

\* The for loop moves to the next item, or ends.
NextItem ==
    /\ wi' = wi + 1
    /\ pc' = IF wi + 1 > Len(work) THEN "done" ELSE "fetch"
    /\ result' = None

\* collect_emails lines 150-154: a profile at max_retries is skipped.
EmSkip ==
    /\ script = "email" /\ pc = "fetch"
    /\ get_current_retry_count(work[wi]) >= max_retries
    /\ NextItem
    /\ UNCHANGED <<out, txn, store, script, run, kills, http, max_results, current_start, page,
                   count, sequence_id, log, pagHist, empVars, sources,
                   enriched, work>>

\* The sleeps of the lookup loop (person.py lines 88, 96, 118, 121): after a
\* transport failure, a 429, a retried or fallen-through 5xx, a body that
\* does not parse, and after the loop `if success`. The breaks (404, 400
\* not_found) and the raises leave without one.
EnSleeps(sc, r) ==
    \/ r.status \in {Transport, 200, 429}
    \/ r.status >= 500

\* One pass of the lookup loop for the current item, and what the caller
\* does with a failure value (`continue`, lines 128-129 / 159-160).
EnFetch ==
    /\ script \in EnScripts /\ pc = "fetch"
    /\ script = "email" => get_current_retry_count(work[wi]) < max_retries
    /\ \E r \in IF script \in {"email", "lookup"} THEN EmailResponses
               ELSE IF script \in {"person", "org"} THEN ProfileResponses
               ELSE Responses :
        /\ Exchange([item |-> work[wi]], r)
        /\ slept' = EnSleeps(script, r)
        /\ all200' = (all200 /\ r.status = 200 /\ r.body # "garbage")
        /\ CASE Lookup(script, r) = "retry" ->
                    UNCHANGED <<pc, wi, result>>
             [] Lookup(script, r) = "data" ->
                    pc' = "got" /\ result' = r /\ wi' = wi
             [] Lookup(script, r) = "fail" ->
                    IF script = "lookup"
                    THEN pc' = "done" /\ UNCHANGED <<wi, result>>
                    ELSE NextItem
             [] OTHER ->
                    pc' = "crashed" /\ UNCHANGED <<wi, result>>
    /\ UNCHANGED <<out, txn, store, script, run, kills, max_results, current_start, page, count,
                   sequence_id, log, served, honest, empVars, sources,
                   enriched, work>>

\* collect_emails lines 163-165: the status stored with a row.
EmailStatus(r) ==
    IF r.status = 200 /\ r.body \in {"VALID", "PROBABLE"} THEN r.body
    ELSE "UNKNOWN"

\* The row inserted for the data in hand (person.py lines 130-135,
\* email_enrichment.py lines 162-170).
NewRowSameRetry(sc, id, r) ==
    IF sc = "email"
    THEN [id |-> id, data |-> r, status |-> EmailStatus(r),
          retry |-> get_current_retry_count(id)]
    ELSE [id |-> id, data |-> r]
NewRow(sc, id, r) ==
    IF sc = "email"
    THEN [id |-> id, data |-> r, status |-> EmailStatus(r),
          retry |-> get_current_retry_count(id) + 1]
    ELSE [id |-> id, data |-> r]

\* The update of collect_data (person.py lines 136-139): the source row of
\* the item is stamped.
StampNothing(srcs, id) == srcs
Stamp(srcs, id) == [srcs EXCEPT ![id] = 1]

\* collect_data lines 130-139 / collect_emails lines 161-174: the insert of
\* the enrichment row and the update of the source row, both in the open
\* transaction. Without the enrichment table the insert raises.
EnWrite ==
    /\ script \in EnScripts \ {"lookup"} /\ pc = "got"
    /\ IF store # "ready"
       THEN pc' = "crashed" /\ txn' = txn
       ELSE pc' = "written" /\ txn' = <<NewRow(script, work[wi], result)>>
    /\ UNCHANGED <<out, store, script, run, kills, http, pagVars, empVars, enVars>>

\* collect_data line 140 / collect_emails line 175: commit, and on to the
\* next item. email_lookup.py lines 105-107: a truthy result is written to
\* the result file.
EnSave ==
    /\ script \in EnScripts
    /\ IF script = "lookup"
       THEN /\ pc = "got"
            /\ log' = <<result>>
            /\ pc' = "done"
            /\ UNCHANGED <<sources, enriched, wi>>
            /\ result' = result
       ELSE /\ pc = "written"
            /\ enriched' = enriched \o txn
            /\ sources' = Stamp(sources, work[wi])
            /\ NextItem
            /\ log' = log
    /\ txn' = <<>>
    /\ UNCHANGED <<out, store, script, run, kills, http, max_results, current_start, page,
                   count, sequence_id, pagHist, empVars, work>>

\* ------------------------------------------------------------------------
\* export/python/people.py and export/python/orgs.py

\* The scripts whose enrichment table has an export.
ExportScripts == {"person", "org"}

\* The paths read from each payload (people.py lines 23-25, orgs.py lines
\* 26-30) and the header written (people.py line 33, orgs.py lines 38-40).
ProjectionShort(sc) ==
    IF sc = "person" THEN <<"name", "link">>
    ELSE <<"profile.name", "profile.linkedinUrl", "profile.industry",
           "profile.description">>
Projection(sc) ==
    IF sc = "person" THEN <<"name", "link", "location">>
    ELSE <<"profile.name", "profile.linkedinUrl", "profile.industry",
           "profile.description", "profile.employeeCount">>
Header(sc) ==
    IF sc = "person" THEN <<"name", "link", "location">>
    ELSE <<"name", "linkedin_url", "industry", "description", "employee_count">>

\* Whether json.loads(row[0])[...] finds the path: a profile has every
\* field unless the server left the last one out; an error body that was
\* stored as a payload has none of them.
HasField(data, sc, k) ==
    /\ data.status = 200
    /\ \/ data.body = "json"
       \/ data.body = "partial" /\ k < Len(Projection(sc))

\* The value at a path of the payload stored for an item.
Field(row, path) == [item |-> row.id, field |-> path]

\* The list comprehension (people.py lines 21-28, orgs.py lines 24-33).
ExportRow(sc, row) ==
    [k \in 1..Len(Projection(sc)) |-> Field(row, Projection(sc)[k])]
ExportableAlways(sc, rows) == TRUE
Exportable(sc, rows) ==
    \A i \in 1..Len(rows) : \A k \in 1..Len(Projection(sc)) :
        HasField(rows[i].data, sc, k)

\* One invocation of the export. The select raises without the table and
\* the comprehension raises on a missing path, both before the output file
\* is opened; else the file is written anew: header, then the rows.
Export ==
    /\ script \in ExportScripts
    /\ IF store = "ready" /\ Exportable(script, enriched)
       THEN out' = [rows |-> <<Header(script)>> \o
                              [i \in 1..Len(enriched) |->
                                  ExportRow(script, enriched[i])],
                    exit |-> "ok"]
       ELSE out' = [out EXCEPT !.exit = "error"]
    /\ UNCHANGED <<script, pc, run, kills, http, pagVars, empVars, enVars,
                   store, txn>>

\* ========================================================================
\* The operator and the whole system
\* ========================================================================

\* The operator kills the process: what is in memory is lost, files stay.
Kill ==
    /\ Running
    /\ pc' = "off"
    /\ kills' = kills + 1
    /\ current_start' = 0
    /\ page' = 0
    /\ count' = 0
    /\ sequence_id' = 0
    /\ result' = None
    /\ after' = 0
    /\ work' = <<>>
    /\ wi' = 0
    /\ txn' = <<>>                    \* the open transaction is rolled back
    /\ UNCHANGED <<out, store, script, run, http, max_results, log, pagHist, employees,
                   is_complete, why, failed, sources, enriched>>

\* __main__, command `migrate` (person.py lines 146-151): needs no API key.
Migrate ==
    /\ script \in CmdScripts
    /\ ~Running
    /\ store # "nodir"
    /\ store' = Migrated(store)
    /\ UNCHANGED <<out, txn, script, pc, run, kills, http, pagVars, empVars, enVars>>

\* __main__, command `import` (person.py lines 153-160): needs no API key.
Import ==
    /\ script \in CmdScripts \ {"emp"}
    /\ ~Running
    /\ store # "nodir"
    /\ Len(sources) < NumSources
    /\ store' \in Imported(store)
    /\ sources' = ImportRows(sources)
    /\ UNCHANGED <<out, txn, script, pc, run, kills, http, pagVars, empVars, enriched,
                   work, wi>>

\* __main__, command `run` without --api-key (person.py lines 162-164,
\* get_employees.py lines 336-338): a message and sys.exit(1).
RunNoKey ==
    /\ script \in CmdScripts
    /\ Start
    /\ pc' = "refused"
    /\ UNCHANGED <<out, txn, pagMem, log, honest, after, employees, is_complete, enVars>>

\* __main__, command `run` on a database the first query fails on (person.py
\* lines 167-173): sqlite3.connect raises only when the directory is
\* missing, which gives the message and sys.exit(1); otherwise the query
\* raises sqlite3.OperationalError, which nothing catches.
RunNoStore ==
    /\ script \in CmdScripts
    /\ ~Selectable(script, store)
    /\ Start
    /\ pc' = IF store = "nodir" THEN "refused" ELSE "crashed"
    /\ UNCHANGED <<out, txn, pagMem, log, honest, after, employees, is_complete, enVars>>

\* Rows earlier invocations of email_enrichment.py left for profile 1:
\* n lookups that each found a PROBABLE email.
PriorRows(n) ==
    [i \in 1..n |-> [id |-> 1, data |-> Resp(200, "PROBABLE"),
                     status |-> "PROBABLE", retry |-> i]]

\* What is in memory, in the counters and in the files before the first
\* invocation.
InitMemory ==
    /\ script \in {"li", "sn", "fl", "emp"} \cup EnScripts
    /\ pc = "off"
    /\ run = 0
    /\ kills = 0
    /\ nreq = 0
    /\ lastResp = NoResp
    /\ lastReq = None
    /\ reqRun = 0
    /\ streak = 0
    /\ slept = FALSE
    /\ max_results \in IF script = "li" THEN {0, 10} ELSE {0}
    /\ current_start = 0
    /\ page = 0
    /\ count = 0
    /\ sequence_id = 0
    /\ result = None
    /\ log = <<>>
    /\ served = <<>>
    /\ all200 = TRUE
    /\ honest = TRUE
    /\ after = 0
    /\ employees = <<>>
    /\ is_complete = 0
    /\ why = "running"
    /\ failed = {}
    /\ work = <<>>
    /\ wi = 0
    /\ txn = <<>>
    /\ out = [rows |-> <<>>, exit |-> "none"]

\* The database is migrated and NumSources source rows are imported.
Installed ==
    /\ store = "ready"
    /\ \/ /\ sources = [i \in 1..NumSources |-> 0]
          /\ enriched = <<>>
       \/ /\ script = "email"
          /\ sources = [i \in 1..NumSources |-> IF i = 1 THEN 1 ELSE 0]
          /\ enriched \in {PriorRows(2), PriorRows(max_retries - 1)}

\* A script with subcommands before its first command.
Fresh ==
    /\ script \in CmdScripts
    /\ store \in {"nodir", "none"}
    /\ sources = <<>>
    /\ enriched = <<>>

Init == InitMemory /\ (Installed \/ Fresh)

LiNext == LiMain \/ LiFetch \/ LiAppend \/ LiAdvance
SnNext == SnMain \/ SnFetch \/ SnAppend \/ SnAdvance
FlNext == FlMain \/ FlFetch
EmpNext == EmpMain \/ EmpFetch \/ EmpWrite \/ EmpSave \/ EmpMarkComplete
EnNext == EnMain \/ EmSkip \/ EnFetch \/ EnWrite \/ EnSave \/ Export

CmdNext == Migrate \/ Import \/ RunNoKey \/ RunNoStore

Next == LiNext \/ SnNext \/ FlNext \/ EmpNext \/ EnNext \/ CmdNext \/ Kill

\* Every script.
Spec == Init /\ [][Next]_vars

\* linkedin/pagination.py alone.
LiInit == Init /\ script = "li"
LiSteps == LiNext \/ Kill
LiSpec == LiInit /\ [][LiSteps]_vars

\* sales_nav_leads/pagination.py alone.
SnInit == Init /\ script = "sn"
SnSteps == SnNext \/ Kill
SnSpec == SnInit /\ [][SnSteps]_vars

\* get_employees.py alone.
EmpInit == Init /\ script = "emp"
EmpSteps == EmpNext \/ Migrate \/ RunNoKey \/ RunNoStore \/ Kill
EmpSpec == EmpInit /\ [][EmpSteps]_vars

\* The single-item lookup scripts alone.
EnInit == Init /\ script \in EnScripts
EnSteps == EnNext \/ CmdNext \/ Kill
EnSpec == EnInit /\ [][EnSteps]_vars

\* The scripts with subcommands.
CmdInit == Init /\ script \in CmdScripts
CmdSteps == CmdNext \/ EnNext \/ EmpNext \/ Kill
CmdSpec == CmdInit /\ [][CmdSteps]_vars

\* The whole-collection loops that retry a transport failure, 429 and 5xx:
\* linkedin/pagination.py and get_employees.py.
PagedInit == Init /\ script \in {"li", "emp"}
PagedSteps == LiNext \/ EmpNext \/ Migrate \/ RunNoKey \/ RunNoStore \/ Kill
PagedSpec == PagedInit /\ [][PagedSteps]_vars

\* ========================================================================
\* Properties
\* ========================================================================

RECURSIVE Cum(_, _)
\* The items of the first i pages of `pages`.
Cum(pages, i) == IF i = 0 THEN 0 ELSE Cum(pages, i - 1) + pages[i].count

IsPrefix(a, b) == Len(a) <= Len(b) /\ \A i \in 1..Len(a) : a[i] = b[i]

\* A first invocation of linkedin/pagination.py, on an empty results file.
LiFresh == script = "li" /\ run = 1

\* The totals of the pages served never decrease.
Monotone(pages) ==
    \A i \in 1..(Len(pages) - 1) : pages[i].total <= pages[i + 1].total

\* Every page served so far is in the results file once, in the order
\* served; only the page in hand is not yet there.
LoggedOnce ==
    /\ Len(log) <= Len(served)
    /\ Len(served) <= Len(log) + 1
    /\ pc \in {"fetch", "logged", "done"} => Len(log) = Len(served)
    /\ \A i \in 1..Len(log) : log[i] = LiLogLine(served[i], log[i].offset)

ReachedTotal(pages, i) == Cum(pages, i) >= pages[i].total

Stops(pages, i) ==
    \/ ReachedTotal(pages, i)
    \/ pages[i].count = 0
    \/ (max_results # 0 /\ Cum(pages, i) >= max_results)

Example ==
    << [start |-> 0, count |-> 10, total |-> 25, seq |-> 2],
       [start |-> 10, count |-> 10, total |-> 25, seq |-> 2],
       [start |-> 20, count |-> 5, total |-> 25, seq |-> 2] >>

\* C2: served the three pages of the example, each with a 200, a fresh run
\* without --max-results issues exactly 3 requests, at offsets 0, 10 and 20,
\* logs 3 pages of 25 items in all, and ends after the third.
C2_ExampleRun ==
    (LiFresh /\ all200 /\ max_results = 0 /\ IsPrefix(served, Example)) =>
        /\ nreq = Len(served)
        /\ \A i \in 1..Len(log) : log[i].offset = Example[i].start
        /\ pc = "fetch" =>
              Len(served) < Len(Example) /\ current_start = PerPage * Len(served)
        /\ (Len(served) = Len(Example) /\ pc \notin {"got", "logged", "off"}) =>
              pc = "done"
        /\ pc = "done" =>
              /\ nreq = 3
              /\ Len(log) = 3
              /\ Cum(log, 3) = 25
              /\ count = 25

\* The example run, ended.
C2_Witness ==
    /\ LiFresh /\ all200 /\ max_results = 0
    /\ served = Example
    /\ pc = "done"

RetryStatus(r) == r.status = 429 \/ r.status >= 500
NotFound(r) == r.status = 404 \/ (r.status = 400 /\ r.body = "nf")
Fatal4xx(r) == r.status >= 400 /\ r.status < 500 /\ r.status # 429 /\ ~NotFound(r)
Range(f) == {f[i] : i \in DOMAIN f}

\* One step of the program as C3 reads it.
RetrySameRequestStep ==
    script \in {"li", "emp"} =>
        /\ (nreq' = nreq + 1 /\ RetryStatus(lastResp')) =>
              /\ <<current_start, after, sequence_id>>' =
                     <<current_start, after, sequence_id>>
              /\ <<log, employees, is_complete>>' = <<log, employees, is_complete>>
              /\ pc' = "fetch"
        /\ (RetryStatus(lastResp) /\ reqRun = run /\ run' = run
                /\ nreq' = nreq + 1) =>
              lastReq' = lastReq

\* C3: in linkedin/pagination.py and get_employees.py a 429 or 5xx response
\* leaves the cursor, the request parameters, the results file and the store
\* as they are and the loop running, and the request issued next in that
\* invocation is the same request again, however many such responses came.
C3_RetrySameRequest == [][RetrySameRequestStep]_vars

\* get_employees.py on a later page, after three 429/5xx responses in a row.
C3_Witness ==
    /\ script = "emp"
    /\ after # 0
    /\ streak = 3
    /\ pc = "fetch"

\* One step of the program as C4 reads it.
Retry5xxStep ==
    (script \in EnScripts /\ nreq' = nreq + 1 /\ lastResp'.status >= 500) =>
          /\ pc' = "fetch"
          /\ wi' = wi
          /\ result' = None
          /\ enriched' = enriched

\* C4 as stated: in every single-item lookup a 5xx response leaves the
\* lookup in its loop on the same item, with nothing returned or stored.
C4_Retry5xx == [][Retry5xxStep]_vars

\* C5 as stated: in the per-item enrichment runs a 404, or a 400 with a
\* not_found body, does not end the run by an exception.
C5_NotFoundSkipsItem ==
    (script \in {"person", "org", "domain", "email"}
        /\ reqRun = run /\ NotFound(lastResp)) => pc # "crashed"

\* One step of the program as C6 reads it.
NotFound400Like404Step ==
    (script \in {"email", "lookup"} /\ nreq' = nreq + 1
            /\ NotFound(lastResp')) =>
          /\ pc' \in {"fetch", "done"}
          /\ result' = None
          /\ script = "email" => wi' = wi + 1

\* C6 as stated: in the email lookups a 404 and a 400 with a not_found body
\* have one outcome: the lookup returns without an exception and without a
\* result to save, and the item is not requested again.
C6_NotFound400Like404 == [][NotFound400Like404Step]_vars

\* One step of the program as C7 reads it.
Fatal4xxEndsRunStep ==
    (Fatal4xx(lastResp) /\ reqRun = run /\ run' = run) =>
          /\ nreq' = nreq
          /\ <<log, employees, enriched, sources>>' =
                 <<log, employees, enriched, sources>>

\* C7 as stated: after a 4xx other than 404, 429 and a not-found 400, the
\* invocation issues no further request and writes nothing.
C7_Fatal4xxEndsRun == [][Fatal4xxEndsRunStep]_vars

\* One step of the program as C8 reads it.
TransportPolicyStep ==
    (nreq' = nreq + 1 /\ lastResp'.status = Transport) =>
          /\ <<log, employees, enriched, sources>>' =
                 <<log, employees, enriched, sources>>
          /\ script \in {"li", "sn", "emp"} =>
                /\ pc' = "fetch"
                /\ <<current_start, page, after, sequence_id>>' =
                       <<current_start, page, after, sequence_id>>
          /\ script \in EnScripts =>
                /\ pc' \in {"fetch", "done"}
                /\ result' = None
                /\ script # "lookup" => wi' = wi + 1

\* C8 as stated: on a transport failure the paginated loops stay in the loop
\* with the cursor unchanged, and the single-item lookups give up the item
\* without a row and go on to the next.
C8_TransportPolicy == [][TransportPolicyStep]_vars

\* No two rows of the employees table have the same (person_id, org_id).
NoDuplicateRows ==
    \A i, j \in 1..Len(employees) : i # j => employees[i] # employees[j]

\* This invocation followed the pages to the last one.
WalkedToEnd == script = "emp" /\ why \in {"nonext", "empty"}

\* The persons on the organisation's pages.
AllPersons == UNION {Ids(EmpOnPage(p)) : p \in 1..EmpNumPages}

C10_ResumeLogsEachPageOnce ==
    (script = "li" /\ honest /\ kills >= run - 1) =>
        /\ \A i, j \in 1..Len(log) : i # j => log[i].start # log[j].start
        /\ \A i \in 1..Len(log) :
              /\ i = 1 => log[i].start = 0
              /\ i > 1 => log[i].start = log[i - 1].start + log[i - 1].count

\* One step of the program as C11 reads it.
ResumeStopsAtTotalStep ==
    (script = "li" /\ honest /\ log # <<>> /\ nreq' = nreq + 1) =>
        current_start < log[Len(log)].total

\* C11 as stated: with a server paging one fixed result set, a run of
\* linkedin/pagination.py that finds lines in the results file never issues
\* a request at an offset at or past the reported total; in particular a
\* re-invocation on a file that covers the whole result set issues none.
C11_ResumeStopsAtTotal == [][ResumeStopsAtTotalStep]_vars

\* The lines of the sales_nav results file are the pages 1, 2, ... of one
\* result set served PerPage at a time, followed by empty pages.
SnHonestLog ==
    \A i \in 1..Len(log) :
        /\ log[i].page = i
        /\ log[i].total = log[1].total
        /\ log[i].count = HonestCount(i, log[i].total)

\* One step of the program as C12 reads it.
ResumedRunStopsStep ==
    (script = "sn" /\ run >= 2 /\ reqRun = run /\ all200 /\ pc = "fetch"
        /\ SnHonestLog /\ log # <<>> /\ log[Len(log)].count = 0) =>
        nreq' = nreq

\* C12 as stated, for its last part: a resumed run of
\* sales_nav_leads/pagination.py whose requests are all answered 200 by a
\* server paging one result set stops once the pages run out: after it has
\* logged an empty page it requests no further page.
C12_ResumedRunStops == [][ResumedRunStopsStep]_vars

\* One step of the program as C13 reads it.
CompleteStaysStep ==
    (script = "emp" /\ is_complete = 1) =>
        /\ is_complete' = 1
        /\ nreq' = nreq
        /\ employees' = employees

\* C13: once run_state.is_complete is 1 for the org, no command of
\* get_employees.py sets it back, issues an HTTP request, or inserts or
\* updates an employees row.
C13_CompleteStays == [][CompleteStaysStep]_vars

\* A second `run` that returned at once: the org was marked complete by the
\* first, which issued the latest request.
C13_Witness ==
    /\ script = "emp"
    /\ is_complete = 1
    /\ run = 2 /\ reqRun = 1
    /\ pc = "done"

\* One step of the program as C14 reads it.
MarkedOnSuccessStep ==
    (script = "emp" /\ is_complete = 0 /\ is_complete' = 1) =>
        why \in {"empty", "nonext"}

\* C14 as stated: get_employees.py sets is_complete only when the loop
\* ended at an empty page or at a page without a next link, not when it
\* ended because no data came back or the next link could not be used.
C14_MarkedOnSuccess == [][MarkedOnSuccessStep]_vars

\* One step of the program as C15 reads it.
SourcesOnlyForwardStep ==
    script \in {"person", "org", "domain"} =>
        /\ Len(sources') >= Len(sources)
        /\ \A i \in 1..Len(sources) : sources[i] # 0 => sources'[i] # 0

\* C15: in person.py, org.py and by_domain.py no command, in any order and
\* with runs killed midway, deletes a source record or sets a non-null
\* last_collected_at back to null.
C15_SourcesOnlyForward == [][SourcesOnlyForwardStep]_vars

\* After a killed run, a second run processed the first record, and a later
\* import added a record next to it.
C15_Witness ==
    /\ script \in {"person", "org", "domain"}
    /\ kills = 1 /\ run = 2
    /\ work = <<1>>
    /\ sources = <<1, 0>>

\* One step of the program as C16 reads it.
MalformedRetriedStep ==
    (nreq' = nreq + 1 /\ lastResp' = Resp(200, "garbage")) =>
        /\ pc' = "fetch"
        /\ <<current_start, page, after, sequence_id, wi>>' =
               <<current_start, page, after, sequence_id, wi>>
        /\ <<log, employees, is_complete, enriched, sources>>' =
               <<log, employees, is_complete, enriched, sources>>

\* C16 as stated: in every fetch loop a 200 whose body is not JSON leaves
\* the loop running on the same item or cursor, with nothing skipped.
C16_MalformedRetried == [][MalformedRetriedStep]_vars

\* Profile p has a committed row with status VALID.
HasValid(p) == \E i \in 1..Len(enriched) :
                   enriched[i].id = p /\ enriched[i].status = "VALID"

\* One step of the program as C17 reads it.
ValidEndsLookupsStep ==
    script = "email" =>
        \A p \in 1..Len(sources) :
            HasValid(p) =>
                /\ nreq' = nreq + 1 => lastReq'.item # p
                /\ RowsOf(p)' = RowsOf(p)

\* C17 as stated: once email_enrichment.py has committed a VALID row for a
\* profile, it issues no further lookup for that profile and inserts no
\* further row for it, in this run or a later one.
C17_ValidEndsLookups == [][ValidEndsLookupsStep]_vars

\* One step of the program as C18 reads it.
AtMostMaxRetriesStep ==
    script = "email" =>
        \A p \in 1..Len(sources) :
            /\ Len(RowsOf(p)') <= max_retries
            /\ \A i \in 1..Len(RowsOf(p)') : RowsOf(p)'[i].retry <= max_retries
            /\ (get_current_retry_count(p) = max_retries /\ nreq' = nreq + 1) =>
                   lastReq'.item # p

\* C18: in email_enrichment.py no row has retry_count above max_retries, no
\* profile has more than max_retries rows, and a profile whose latest row
\* has retry_count max_retries is not looked up again.
C18_AtMostMaxRetries == [][AtMostMaxRetriesStep]_vars

\* Profile 1 reached its sixth row in this run, and the run went on past
\* the later entries of profile 1 in its work list to look up profile 2.
C18_Witness ==
    /\ script = "email"
    /\ Len(RowsOf(1)) = max_retries
    /\ reqRun = run /\ nreq = 2
    /\ lastReq = [item |-> 2]

\* One step of the program as C19 reads it.
ResumableStep ==
    script \in {"person", "org", "domain"} =>
        /\ \A p \in 1..Len(sources) :
              /\ Len(RowsOf(p)') <= 1
              /\ (RowsOf(p) # <<>> /\ nreq' = nreq + 1) => lastReq'.item # p
        /\ (run' = run + 1 /\ pc' \in {"fetch", "done"}) =>
              \A p \in 1..Len(sources) :
                  RowsOf(p) = <<>> => \E i \in 1..Len(work') : work'[i] = p

\* C19: in person.py, org.py and by_domain.py, over runs killed at any
\* point, a source record with a committed enrichment row is not fetched
\* again, no record has more than one enrichment row, and every record
\* without one is selected by the next run.
C19_Resumable == [][ResumableStep]_vars

\* A run was killed after it had saved the first record; the next run
\* selected the second record only and saved it.
C19_Witness ==
    /\ script \in {"person", "org", "domain"}
    /\ kills = 1 /\ run = 2
    /\ work = <<2>>
    /\ Len(RowsOf(1)) = 1 /\ Len(RowsOf(2)) = 1
    /\ pc = "done"

\* C20 as stated: while the database is not the one `migrate` creates, no
\* `run` has issued an HTTP request, written a row, or ended without an
\* error; and a `run` refused for the missing API key issued no request.
C20_RunNeedsKeyAndStore ==
    /\ (script \in CmdScripts /\ store # "ready") =>
          /\ nreq = 0
          /\ enriched = <<>> /\ employees = <<>>
          /\ pc \in {"off", "fetch", "refused", "crashed"}
    /\ (script \in CmdScripts /\ pc = "refused") => reqRun # run

ZeroPageEndsStep ==
    /\ (script \in {"li", "sn"} /\ pc = "logged" /\ result.count = 0) =>
          pc' # "fetch"
    /\ (script = "emp" /\ pc = "got" /\ result.employees = <<>>) =>
          pc' # "fetch"
    /\ (script = "li" /\ pc = "logged"
          /\ (count >= result.total
                \/ (max_results # 0 /\ count >= max_results))) =>
          pc' # "fetch"

\* C21 as stated: in the three paginated loops a 200 page of zero items is
\* followed by no further request, and in linkedin/pagination.py neither is
\* the first page at which the collected count reaches the reported total
\* or --max-results.
C21_ZeroPageEnds == [][ZeroPageEndsStep]_vars

\* The rows written in the open transaction (a skipped employee wrote none).
Uncommitted ==
    IF script = "emp" THEN {i \in 1..Len(txn) : txn[i] # 0} ELSE 1..Len(txn)

RowByRowStep ==
    (kills' # kills) =>
        /\ Cardinality(Uncommitted) <= 1
        /\ enriched' = enriched /\ employees' = employees
        /\ sources' = sources

\* C22 as stated: in person.py, org.py, by_domain.py, email_enrichment.py
\* and get_employees.py every persisted item is committed before the next
\* one is written, so a kill loses at most the one item being written and
\* leaves every item written before it in the database.
C22_RowByRow == [][RowByRowStep]_vars

\* The fields C23 lists for each export.
ListedFields(sc) ==
    IF sc = "person" THEN <<"name", "link", "location">>
    ELSE <<"profile.name", "profile.linkedinUrl", "profile.industry",
           "profile.description", "profile.employeeCount">>

ExportWritesStep ==
    (out' # out) =>
        /\ UNCHANGED <<store, sources, enriched, txn>>
        /\ (out'.rows # out.rows \/ out'.exit = "ok") =>
              /\ Len(out'.rows) = Len(enriched) + 1
              /\ out'.rows[1] = Header(script)
              /\ \A i \in 1..Len(enriched) :
                    /\ Len(out'.rows[i + 1]) = Len(ListedFields(script))
                    /\ \A k \in 1..Len(ListedFields(script)) :
                          out'.rows[i + 1][k] =
                              [item |-> enriched[i].id,
                               field |-> ListedFields(script)[k]]

SleepBetweenStep ==
    (nreq' # nreq /\ reqRun = run) => slept

\* C24 as stated: an HTTP request of a run that follows another request of
\* the same run, successful or not, is issued after the process has slept
\* since the response to that request.
C24_SleepBetween == [][SleepBetweenStep]_vars

\* A step taken while no run is in progress and that starts none: a
\* `migrate`, an `import` or an export.
ImportAppendsStep ==
    /\ (~Running /\ run' = run) =>
          /\ IsPrefix(sources, sources')
          /\ Len(sources') <= Len(sources) + 1
          /\ enriched' = enriched
          /\ employees' = employees /\ is_complete' = is_complete
          /\ store = "ready" => store' = "ready"
    /\ \A st \in Stores : Migrated(Migrated(st)) = Migrated(st)

\* C25: `import` adds the input row after the source rows there are and
\* leaves those and every enrichment row as they were; `migrate` changes no
\* row, and on a migrated database it changes nothing.
C25_ImportAppends == [][ImportAppendsStep]_vars

\* After a run that processed the only record, an import added a second
\* record; the first kept its timestamp and its enrichment row.
C25_Witness ==
    /\ script \in {"person", "org", "domain"}
    /\ pc = "done" /\ run = 1 /\ kills = 0
    /\ store = "ready"
    /\ sources = <<1, 0>>
    /\ Len(enriched) = 1

\* C26: in person.py, org.py and by_domain.py the committed database, at
\* any moment and so after a kill at any point, has a non-null
\* last_collected_at on a source record exactly when an enrichment row
\* references the record.
C26_StampedIffEnriched ==
    script \in {"person", "org", "domain"} =>
        \A p \in 1..Len(sources) : (sources[p] # 0) <=> (RowsOf(p) # <<>>)

\* The first record was committed; the run was killed while the answer for
\* the second record was in hand or written in the open transaction.
C26_Witness ==
    /\ script \in {"person", "org", "domain"}
    /\ kills = 1 /\ pc = "off"
    /\ nreq = 2 /\ lastReq = [item |-> 2] /\ lastResp.status = 200
    /\ sources = <<1, 0>>
    /\ Len(RowsOf(1)) = 1 /\ RowsOf(2) = <<>>

\* C27 as stated: in the single-item scripts every enrichment row written
\* in this behaviour, and the result file of email_lookup.py, holds the
\* parsed body of a 200 response, and a source record is marked processed
\* only along with such a row.
C27_Only200Persisted ==
    script \in EnScripts =>
        /\ \A i \in 1..Len(enriched) : enriched[i].data.status = 200
        /\ \A i \in 1..Len(log) : log[i].status = 200

\* The profiles for which a row was inserted by this step.
Inserted(p) == Len(SelectSeq(enriched', LAMBDA row : row.id = p)) > Len(RowsOf(p))

OncePerRunStep ==
    script = "email" =>
        /\ \A i, j \in 1..Len(work') : i # j => work'[i] # work'[j]
        /\ \A p \in 1..Len(sources) :
              Inserted(p) => \A i \in 1..Len(work) : i < wi => work[i] # p

\* C28 as stated: in email_enrichment.py the work list of a run holds each
\* profile at most once, and a run inserts at most one row per profile.
C28_OncePerRun == [][OncePerRunStep]_vars

\* The rows of every profile count their retries 1, 2, ..., n.
RetryCounts ==
    script = "email" =>
        \A p \in 1..Len(sources) : \A i \in 1..Len(RowsOf(p)) :
            RowsOf(p)[i].retry = i

\* A lookup that ends on a transport failure or on a 200 that does not
\* parse goes on to the next profile with no row written or committed and
\* no timestamp set.
NoResultStep ==
    (script = "email" /\ nreq' # nreq
       /\ lastResp' \in {Resp(Transport, "none"), Resp(200, "garbage")}) =>
        /\ pc' \in {"fetch", "done"} /\ wi' = wi + 1
        /\ txn' = <<>>
        /\ enriched' = enriched /\ sources' = sources

\* C29: in email_enrichment.py the rows of a profile carry retry_count 1,
\* 2, ..., n in the order they were inserted, and a lookup without a result
\* inserts no row, leaves last_attempted_at alone and uses up no retry.
C29_RetryCounts == []RetryCounts /\ [][NoResultStep]_vars

\* Profile 1 had two rows; this run added the third, then looked the
\* profile up again, the request failed in transport and no row was added.
C29_Witness ==
    /\ script = "email"
    /\ work = <<1, 1, 2>> /\ wi = 3
    /\ lastReq = [item |-> 1] /\ lastResp = Resp(Transport, "none")
    /\ Len(RowsOf(1)) = 3 /\ RowsOf(1)[3].retry = 3

NextPageGreaterStep ==
    (script = "li" /\ pc = "logged" /\ pc' = "fetch" /\ result.count > 0) =>
        LiRequest(current_start', sequence_id').page > lastReq.page

\* C30 as stated: in linkedin/pagination.py, after a 200 page with
\* count > 0 that does not end the loop, the request that comes next asks
\* for a page number greater than that of the request just answered,
\* whatever the size of the page.
C30_NextPageGreater == [][NextPageGreaterStep]_vars

\* While the loop of linkedin/pagination.py is about to issue a request,
\* every page served in this run added at least one item to the count, and
\* the count is below the total the last page reported.
CountBelowTotal ==
    (script = "li" /\ pc = "fetch" /\ served # <<>>) =>
        /\ Len(served) <= count
        /\ count < served[Len(served)].total

\* An iteration adds the page's count to the collected count, and goes on
\* to a further request only after a page that added to it.
CountGrowsStep ==
    script = "li" =>
        /\ (pc = "got" /\ pc' = "logged") => count' = count + result.count
        /\ (pc = "logged" /\ pc' = "fetch") =>
              /\ result.count > 0
              /\ count < result.total
        /\ (pc = "logged" /\ pc' # "fetch") => ~Running'

\* C31: collect_search of linkedin/pagination.py ends after finitely many
\* 200 pages whatever start and count they report: an iteration either
\* ends the loop or has raised the collected count, which stays below the
\* reported total for as long as the loop goes on.
C31_CountGrows == []CountBelowTotal /\ [][CountGrowsStep]_vars

\* A run whose second page reported a start that had not advanced ended
\* when the count reached the total.
C31_Witness ==
    /\ script = "li" /\ run = 1 /\ kills = 0
    /\ pc = "done"
    /\ Len(served) = 2
    /\ served[1].start = 0 /\ served[2].start = 0 /\ served[2].count > 0
    /\ count >= served[2].total

\* The responses get_employees_page raises on.
FatalStatus(st) == st >= 400 /\ st < 500 /\ st \notin {404, 429}

FatalAbortsStep ==
    script = "emp" =>
        /\ (nreq' # nreq /\ FatalStatus(lastResp'.status)) =>
              /\ pc' = "crashed"
              /\ is_complete = 0 /\ is_complete' = 0
              /\ employees' = employees
        /\ (pc = "crashed" /\ why = "raised") =>
              /\ is_complete' = 0
              /\ employees' = employees
              /\ (run' # run /\ pc' # "refused") => (pc' = "fetch" /\ after' = 0)

\* C32: in get_employees.py a page request answered 401 or another 4xx
\* that is not 404 or 429 aborts the run with is_complete unset and the
\* employees of the earlier pages committed; the next `run` for the org
\* starts again at the first page.
C32_FatalAborts == [][FatalAbortsStep]_vars

\* The first run saved page 1 and was answered 401 for page 2; the second
\* run is about to request the first page.
C32_Witness ==
    /\ script = "emp"
    /\ run = 2 /\ reqRun = 1 /\ kills = 0
    /\ lastResp.status = 401 /\ lastReq = [after |-> 2]
    /\ employees # <<>> /\ is_complete = 0
    /\ pc = "fetch" /\ after = 0

SkipsOneStep ==
    (script = "emp" /\ pc = "got" /\ kills' = kills) =>
        /\ Len(txn') = Len(txn) + 1 =>
              LET e == result.employees[Len(txn) + 1]
              IN /\ pc' = "got"
                 /\ txn'[Len(txn')] \in {0, e}
                 /\ e = 0 => txn'[Len(txn')] = 0
                 /\ \A i \in 1..Len(txn) : txn'[i] = txn[i]
        /\ (txn' = <<>> /\ result.employees # <<>>) =>
              /\ Len(txn) = Len(result.employees)
              /\ \A i \in 1..Len(txn) :
                    txn[i] # 0 => txn[i] \in Ids(employees')
              /\ Ids(employees) \subseteq Ids(employees')
              /\ ParseNext(result.next) # 0 =>
                    (pc' = "fetch" /\ after' = ParseNext(result.next))

\* C33: in save_employees an employee without a personId, or one whose
\* insert raises, is passed over and the page goes on: every other employee
\* of the page is upserted and committed with the page, and the loop moves
\* on to the next page.
C33_SkipsOne == [][SkipsOneStep]_vars

\* On the first page the insert of person 1 raised and one employee had no
\* personId; person 2 was committed and the loop is at the next page.
C33_Witness ==
    /\ script = "emp" /\ run = 1 /\ kills = 0 /\ nreq = 1
    /\ failed = {1}
    /\ employees = <<2>>
    /\ pc = "fetch" /\ after = 2

\* Some enrichment row's payload is without one of the fields C23 lists.
LacksField ==
    \E i \in 1..Len(enriched) : \E k \in 1..Len(ListedFields(script)) :
        ~HasField(enriched[i].data, script, k)

ExportAbortsStep ==
    (script \in ExportScripts /\ out' # out /\ LacksField) =>
        /\ out'.exit = "error"
        /\ out'.rows = out.rows

\* C34: an export over a table in which a payload lacks a projected field
\* ends in an error and leaves the output file, if there is one, as it
\* was.
C34_ExportAborts == [][ExportAbortsStep]_vars

\* An export wrote the first row; a second row came whose payload lacks a
\* field, and the next export failed with the file of the first still there.
C34_Witness ==
    /\ script \in ExportScripts
    /\ Len(enriched) = 2 /\ enriched[2].data = Resp(200, "partial")
    /\ out.exit = "error"
    /\ Len(out.rows) = 2 /\ out.rows[1] = Header(script)

SnChainStep ==
    (script = "sn" /\ nreq' # nreq) =>
        IF reqRun # run
        THEN lastReq'.seq = 0
        ELSE IF lastResp = Resp(200, "json")
        THEN /\ lastReq'.seq = served[Len(served)].seq
             /\ lastReq'.page = lastReq.page + 1
        ELSE lastReq' = lastReq

\* C35: in sales_nav_leads/pagination.py the first request of a run has an
\* empty sequence_id; a request after a page has the sequenceId of that
\* page and the page number after it; a request after a failed one repeats
\* its page number and sequence_id.
C35_SnChain == [][SnChainStep]_vars

\* The request for page 2, with the sequenceId page 1 returned, failed once
\* and was repeated; the repeat returned the page.
C35_Witness ==
    /\ script = "sn" /\ run = 1 /\ kills = 0
    /\ nreq = 3
    /\ lastReq = [page |-> 2, seq |-> 2]
    /\ Len(served) = 2 /\ served[1].seq = 2
    /\ pc = "got"

====
